---- MODULE Spec2Model ----
(***************************************************************************)
(* A model of the agent cognitive-interaction engine of MarqetSim:         *)
(*   - Person (src/marqetsim/agent/person.py): set_context, listen, act    *)
(*     and listen_and_act, with the episodic log, the action buffer and    *)
(*     the cognitive state kept in _configuration;                         *)
(*   - the provider clients (src/marqetsim/llm/): OpenAIClient's retried   *)
(*     send_message, AnthropicAPIClient's and OllamaAPIClient's            *)
(*     send_message;                                                       *)
(*   - EpisodicMemory's retrievals, chunk_text and SemanticMemory's store  *)
(*     (src/marqetsim/memory/), and Person.define.                         *)
(* Python dictionaries are functions whose DOMAIN is the set of keys; a    *)
(* read of a key outside the DOMAIN is Python's KeyError.                  *)
(***************************************************************************)
EXTENDS Integers, Sequences, FiniteSets, TLC

VARIABLES
    configuration,    \* Person._configuration
    memory,           \* Person.episodic_memory.memory (the episodic log)
    actions_buffer,   \* Person._actions_buffer
    contents,         \* the local list `contents` of the running act()
    pc,               \* "idle" | "acting" | "returned" | "raised"
    exc,              \* the exception that left act(), "" when none
    tries,            \* index i of repeat_on_error's loop in the running aux_act_once
    calls,            \* provider calls made by the running act() (history)
    last_resp,        \* what the last provider call gave (history)
    first_done,       \* the first provider call of this act() gave one DONE record (history)
    mem_start,        \* len(memory) when the running act() was entered (history)
    acts,             \* act() invocations so far (history)
    provider,         \* the kind of provider the agent is bound to: "steady" | "varied"
    total_calls,      \* provider calls over the agent's life (history)
    empties,          \* empty answers over the agent's life (history)
    current_messages, \* Person.current_messages, the prompt reset_prompt builds
    relevance_target, \* the target of the last lookup in semantic memory (history)
    cache_api_calls,  \* OpenAIClient.cache_api_calls
    api_cache,        \* OpenAIClient.api_cache: cache key -> raw response
    cache_file,       \* the pickled cache on disk
    o_pc,             \* OpenAIClient.send_message: "idle" | "loop" | "done"
    cache_key,        \* cache key of the running send_message
    max_attempts,     \* default["max_attempts"] of the running send_message
    base_wait,        \* default["waiting_time"] of the running send_message
    exponential_backoff_factor,
    waiting_time,     \* the local waiting_time of the running send_message
    i_attempt,        \* the local i of the running send_message
    o_attempts,       \* outcome of every backend call of this send_message (history)
    o_sleeps,         \* every time.sleep of this send_message (history)
    o_hit,            \* this send_message was answered from the cache (history)
    a_call,           \* the backend replies of the last AnthropicAPIClient.send_message (history)
    fixed_prefix_length,  \* EpisodicMemory.fixed_prefix_length
    lookback_length,      \* EpisodicMemory.lookback_length
    ret,              \* the last retrieval from episodic memory and what it returned
    chunking,         \* chunk_text: its arguments, start, chunks and position
    documents,        \* the documents added to the knowledge base of semantic memory
    last_define,      \* the last Person.define call
    client,           \* the client this process is bound to (LLM(provider))
    result            \* what the last send_message of any client gave its caller

agent_vars == <<configuration, memory, actions_buffer, contents, pc, exc, tries,
                calls, last_resp, first_done,  mem_start, acts, provider,
                total_calls, empties, current_messages, relevance_target>>

llm_vars == <<cache_api_calls, api_cache, cache_file, o_pc, cache_key, max_attempts,
              base_wait, exponential_backoff_factor, waiting_time, i_attempt,
              o_attempts, o_sleeps, o_hit, a_call, client, result>>

mem_vars == <<fixed_prefix_length, lookback_length, ret>>

lib_vars == <<chunking, documents, last_define>>

vars == <<agent_vars, llm_vars, mem_vars, lib_vars>>

-----------------------------------------------------------------------------
(* Bounds of the model *)

\* empty answers of the steady provider over the life of an agent
MaxEmpty == 1
\* provider calls over the life of an agent bound to the varied provider
MaxVariedCalls == 5
\* act() invocations of one agent
MaxActs == 2
\* listen() and act() are entered only while the episodic log is at most this long
MaxLogAtStart == 2

-----------------------------------------------------------------------------
(* Program constants *)

MAX_ACTIONS_BEFORE_DONE == 15

\* repeat_on_error(retries=5, ...)
RETRIES == 5

\* `if len(contents) > 4` before the repetition test
REPETITION_MIN == 4

\* Environment.current_datetime, set once when the class is defined: a point
\* on the time line
EnvDatetime == 0

-----------------------------------------------------------------------------
(* Dictionaries *)

HasKey(d, k) == k \in DOMAIN d

Put(d, k, v) == [x \in (DOMAIN d) \cup {k} |-> IF x = k THEN v ELSE d[x]]

Last(s) == s[Len(s)]

-----------------------------------------------------------------------------
(* The values a provider can answer with *)

Action(t, c) == [type |-> t, content |-> c, target |-> ""]

CognitiveState(g) == [goals |-> g, attention |-> "att", emotions |-> "emo"]

RecA == [action |-> Action("TALK", <<"a">>), cognitive_state |-> CognitiveState("gA")]
RecB == [action |-> Action("TALK", <<"b">>), cognitive_state |-> CognitiveState("gB")]
\* texts are sequences of characters
IChooseAd1 ==
    <<"I", " ", "c", "h", "o", "o", "s", "e", " ", "A", "d", " ", "1">>

RecDone == [action |-> Action("DONE", IChooseAd1),
            cognitive_state |-> CognitiveState("gD")]
\* well-formed JSON objects that lack a key the loop reads
RecNoAction == [cognitive_state |-> CognitiveState("gA")]
RecNoGoals == [action |-> Action("TALK", <<"a">>),
               cognitive_state |-> [attention |-> "att", emotions |-> "emo"]]

\* send_message's results: None, an exception, or {role, content}
NoneResp == [kind |-> "None"]
RaiseResp == [kind |-> "raise"]
MsgResp(c) == [kind |-> "message", role |-> "assistant", content |-> c]

\* The varied provider answers with anything of this list, in any order.
VariedResponses ==
    {NoneResp, RaiseResp} \cup
    {MsgResp(c) : c \in {<<RecA>>, <<RecDone>>, <<RecNoAction>>, <<RecNoGoals>>,
                         <<RecDone, RecA>>}}

\* The steady provider never fails, never sends a malformed record and never
\* repeats the action it sent last (the last one of the log it is prompted
\* with): it answers with nothing, with DONE, or with RecA and RecB in turn.
SteadyResponses(mem) ==
    {MsgResp(<<>>), MsgResp(<<RecDone>>),
     MsgResp(<<IF Len(mem) > 0 /\ mem[Len(mem)].type = "action"
                  /\ mem[Len(mem)].content.action = RecA.action
               THEN RecB ELSE RecA>>)}

AllResponses == VariedResponses \cup {MsgResp(<<>>), MsgResp(<<RecB>>)}

Responses(p, mem) == IF p = "steady" THEN SteadyResponses(mem) ELSE VariedResponses

\* what the model lets the provider answer after n calls and e empty answers
WithinBudget(p, resp, n, e) ==
    IF p = "steady" THEN resp = MsgResp(<<>>) => e < MaxEmpty
    ELSE n < MaxVariedCalls

NoCall == [kind |-> "NoCall"]

-----------------------------------------------------------------------------
(* EpisodicMemory: its retrievals, and the truncation of what they return *)

\* an optional argument: None, or a number
NotGiven == [given |-> FALSE]
Given(n) == [given |-> TRUE, n |-> n]

Min(a, b) == IF a <= b THEN a ELSE b

\* s[:n], n >= 0
SliceFirst(s, n) == SubSeq(s, 1, Min(n, Len(s)))

\* s[-n:], n >= 0: s[-0:] is s[0:], the whole list
SliceLast(s, n) == IF n = 0 THEN s ELSE SubSeq(s, Len(s) - Min(n, Len(s)) + 1, Len(s))

MEMORY_BLOCK_OMISSION_INFO ==
    [role |-> "assistant",
     content |-> "Info: there were other messages here, but they were omitted for brevity.",
     simulation_timestamp |-> "None"]

omission_info(include_omission_info) ==
    IF include_omission_info THEN <<MEMORY_BLOCK_OMISSION_INFO>> ELSE <<>>

retrieve_first(mem, n, include_omission_info) ==
    SliceFirst(mem, n) \o omission_info(include_omission_info)

retrieve_last(mem, n, include_omission_info) ==
    omission_info(include_omission_info) \o SliceLast(mem, n)

retrieve_all(mem) == mem

\* EpisodicMemory.retrieve: retrieve_first and retrieve_last are called with
\* their default include_omission_info=True
retrieve(mem, first_n, last_n, include_omission_info) ==
    IF first_n.given /\ last_n.given
    THEN retrieve_first(mem, first_n.n, TRUE)
           \o omission_info(include_omission_info)
           \o retrieve_last(mem, last_n.n, TRUE)
    ELSE IF first_n.given THEN retrieve_first(mem, first_n.n, TRUE)
    ELSE IF last_n.given THEN retrieve_last(mem, last_n.n, TRUE)
    ELSE retrieve_all(mem)

\* a lookback that is not cut to what the prefix leaves
RemainingLookbackUncut(n, prefix_len, lookback) == lookback

\* remaining_lookback = min(len(self.memory) - len(fixed_prefix), self.lookback_length)
RemainingLookback(n, prefix_len, lookback) == Min(n - prefix_len, lookback)

\* EpisodicMemory.retrieve_recent
retrieve_recent(mem, prefix_length, lookback, include_omission_info) ==
    LET fixed_prefix == SliceFirst(mem, prefix_length) \o omission_info(include_omission_info)
        remaining_lookback == RemainingLookback(Len(mem), Len(fixed_prefix), lookback)
    IN IF remaining_lookback <= 0
       THEN fixed_prefix
       ELSE fixed_prefix \o SliceLast(mem, remaining_lookback)

BreakMark == <<" ", "(", ".", ".", ".", ")">>

\* break_text_at_length(text, max_length) on a string, max_length given
break_text_at_length(text, max_length) ==
    IF Len(text) <= max_length THEN text ELSE SubSeq(text, 1, max_length) \o BreakMark

\* truncate_actions_or_stimuli: what it does to one element of its clone
TruncateElement(element, max_length) ==
    IF ~HasKey(element, "content") \/ element = MEMORY_BLOCK_OMISSION_INFO
    THEN element
    ELSE IF HasKey(element.content, "action")
    THEN IF HasKey(element.content.action, "content")
         THEN [element EXCEPT !.content.action.content = break_text_at_length(@, max_length)]
         ELSE element
    ELSE IF HasKey(element.content, "stimulus")
    THEN IF HasKey(element.content.stimulus, "content")
         THEN [element EXCEPT !.content.stimulus.content = break_text_at_length(@, max_length)]
         ELSE element
    ELSE IF HasKey(element.content, "stimuli")
    THEN [element EXCEPT !.content.stimuli =
            [k \in 1..Len(@) |->
               IF HasKey(@[k], "content")
               THEN [@[k] EXCEPT !.content = break_text_at_length(@, max_length)]
               ELSE @[k]]]
    ELSE element

\* truncate_actions_or_stimuli: the list it returns
truncate_actions_or_stimuli(list, max_length) ==
    [k \in 1..Len(list) |-> TruncateElement(list[k], max_length)]

\* a truncation that works on the stored event itself
TruncatedInPlace(element, max_length) == TruncateElement(element, max_length)

\* truncate_actions_or_stimuli: an element of the list it was handed, after the
\* call; copy.deepcopy keeps it as it was
SourceAfterTruncate(element, max_length) == element

\* the log after a truncating retrieval that returned `got`
LogAfterTruncate(mem, got, max_length) ==
    [k \in 1..Len(mem) |->
       IF \E j \in 1..Len(got) : got[j] = mem[k]
       THEN SourceAfterTruncate(mem[k], max_length)
       ELSE mem[k]]

NoRetrieval ==
    [op |-> "none", first |-> NotGiven, last |-> NotGiven, inc |-> TRUE,
     max |-> NotGiven, n |-> 0, value |-> <<>>]

Retrieval(op, first_n, last_n, inc, max, n, value) ==
    [op |-> op, first |-> first_n, last |-> last_n, inc |-> inc, max |-> max,
     n |-> n, value |-> value]

-----------------------------------------------------------------------------
(* Person *)

\* a clock that goes back as the log grows
iso_datetime_backwards == <<"iso", EnvDatetime - Len(memory)>>

\* Person.iso_datetime: environment.current_datetime.isoformat()
iso_datetime == <<"iso", EnvDatetime>>

\* common.pretty_datetime(dt): the display form of a datetime
pretty_datetime(dt) == <<"pretty", dt>>

\* Person.store_in_memory: episodic_memory.store(data), an append
store_in_memory(mem, data) == Append(mem, data)

ActionEvent(role, subcontent) ==
    [role |-> role, content |-> subcontent, type |-> "action",
     simulation_timestamp |-> iso_datetime]

StimulusEvent(message) ==
    [role |-> "user",
     content |-> [stimuli |-> <<[type |-> "CONVERSATION", content |-> message,
                                 source |-> ""]>>],
     type |-> "stimulus",
     simulation_timestamp |-> iso_datetime]

\* the keys retrieve_relevant_memories_for_current_context reads
ContextKeys == {"current_context", "current_goals", "current_attention",
                "current_emotions"}

\* an update that takes the goals for the context as well
UpdateCognitiveFieldsAndContext(cfg, cs) ==
    Put(Put(Put(Put(Put(cfg, "current_datetime", pretty_datetime(EnvDatetime)),
                    "current_goals", cs.goals),
                "current_context", cs.goals),
            "current_attention", cs.attention),
        "current_emotions", cs.emotions)

\* Person._update_cognitive_state(goals, attention, emotions): the writes made
\* before the relevant memories are looked up
UpdateCognitiveFields(cfg, cs) ==
    Put(Put(Put(Put(cfg, "current_datetime", pretty_datetime(EnvDatetime)),
                "current_goals", cs.goals),
            "current_attention", cs.attention),
        "current_emotions", cs.emotions)

\* retrieve_relevant_memories_for_current_context(top_k=7)
TOP_K == 7
\* retrieve_memories(first_n=0, last_n=10, max_content_length=100)
RECENT_FIRST_N == 0
RECENT_LAST_N == 10
RECENT_MAX_CONTENT_LENGTH == 100

\* Person.retrieve_memories
retrieve_memories(mem, first_n, last_n, include_omission_info, max_content_length) ==
    LET episodes == retrieve(mem, first_n, last_n, include_omission_info)
    IN IF max_content_length.given
       THEN truncate_actions_or_stimuli(episodes, max_content_length.n)
       ELSE episodes

\* Person.retrieve_recent_memories
retrieve_recent_memories(mem, prefix_length, lookback, max_content_length) ==
    LET episodes == retrieve_recent(mem, prefix_length, lookback, TRUE)
    IN IF max_content_length.given
       THEN truncate_actions_or_stimuli(episodes, max_content_length.n)
       ELSE episodes

\* no lookup in semantic memory was made yet
NoTarget == [made |-> FALSE]

\* the target retrieve_relevant_memories_for_current_context puts together
RelevanceTarget(cfg, mem) ==
    LET recent == retrieve_memories(mem, Given(RECENT_FIRST_N), Given(RECENT_LAST_N),
                                    TRUE, Given(RECENT_MAX_CONTENT_LENGTH))
    IN [made |-> TRUE,
        context |-> cfg.current_context,
        goals |-> cfg.current_goals,
        attention |-> cfg.current_attention,
        emotions |-> cfg.current_emotions,
        recent_memories |-> [k \in 1..Len(recent) |-> recent[k].content]]

\* SemanticMemory.retrieve_relevant(relevance_target, top_k): at most top_k
\* documents of the knowledge base; their order stands for the ranking
retrieve_relevant(docs, target, top_k) ==
    SubSeq(docs, 1, Min(top_k, Len(docs)))

\* Person.generate_agent_system_prompt: the template rendered with a copy of
\* the configuration
generate_agent_system_prompt(cfg) == [template_variables |-> cfg]

FinalUserMessage ==
    [role |-> "user",
     content |-> "**must** gen actions sequence following your interaction directives"]

\* Person.reset_prompt: the value it leaves in current_messages
reset_prompt(cfg, mem, prefix_length, lookback) ==
    <<[role |-> "user", content |-> generate_agent_system_prompt(cfg)]>>
      \o retrieve_recent_memories(mem, prefix_length, lookback, NotGiven)
      \o <<FinalUserMessage>>

\* the loop body of aux_act_once for one record, on
\* st = [mem, buf, cfg, out, err, msgs, target]
ProcessOne(st, role, r) ==
    IF ~HasKey(r, "action") \/ ~HasKey(r, "cognitive_state")
    THEN [st EXCEPT !.err = "KeyError"]
    ELSE
      LET st1 == [st EXCEPT !.mem = store_in_memory(st.mem, ActionEvent(role, r)),
                            !.buf = Append(st.buf, r.action)]
          cs == r.cognitive_state
      IN
      IF ~({"goals", "attention", "emotions"} \subseteq DOMAIN cs)
      THEN [st1 EXCEPT !.err = "KeyError"]
      ELSE
        LET cfg1 == UpdateCognitiveFields(st1.cfg, cs)
            st2 == [st1 EXCEPT !.cfg = cfg1]
        IN
        IF ~(ContextKeys \subseteq DOMAIN cfg1)
        THEN [st2 EXCEPT !.err = "KeyError"]
        ELSE
          LET target == RelevanceTarget(cfg1, st1.mem)
              cfg2 == Put(cfg1, "current_memory_context",
                          retrieve_relevant(documents, target, TOP_K))
              st3 == [st2 EXCEPT !.cfg = cfg2,
                                 !.target = target,
                                 !.msgs = reset_prompt(cfg2, st1.mem, fixed_prefix_length,
                                                       lookback_length),
                                 !.out = Append(st2.out, r)]
          IN
          \* _display_communication reads action["type"] and action["target"]
          IF ~({"type", "target"} \subseteq DOMAIN r.action)
          THEN [st3 EXCEPT !.err = "KeyError"]
          ELSE st3

RECURSIVE ProcessRecords(_, _, _)
ProcessRecords(st, role, recs) ==
    IF recs = <<>> \/ st.err # "" THEN st
    ELSE ProcessRecords(ProcessOne(st, role, Head(recs)), role, Tail(recs))

\* the while condition of act()
LoopCondition(c) == Len(c) = 0 \/ Last(c).action.type # "DONE"

\* `if len(contents) > Person.MAX_ACTIONS_BEFORE_DONE: break`
CapReached(c) == Len(c) > MAX_ACTIONS_BEFORE_DONE

\* a repetition test that starts one record early
RepetitionDetectedEarly(c) ==
    /\ Len(c) > REPETITION_MIN - 1
    /\ c[Len(c)].action = c[Len(c) - 1].action
    /\ c[Len(c) - 1].action = c[Len(c) - 2].action

\* `if len(contents) > 4:` and the last three actions are the same
RepetitionDetected(c) ==
    /\ Len(c) > REPETITION_MIN
    /\ c[Len(c)].action = c[Len(c) - 1].action
    /\ c[Len(c) - 1].action = c[Len(c) - 2].action

\* act() leaves its loop here
LoopExits(c) == ~LoopCondition(c) \/ CapReached(c) \/ RepetitionDetected(c)

AtLoopHead == pc = "acting" /\ tries = 0

InitAgent ==
    /\ memory = <<>>
    /\ provider \in {"steady", "varied"}
    /\ configuration =
         IF provider = "varied"
         THEN [persona |-> [name |-> "Joe", age |-> "35"],
               current_datetime |-> iso_datetime]
         ELSE [persona |-> [name |-> "Joe", age |-> "35"],
               current_datetime |-> iso_datetime, current_context |-> "ctx"]
    /\ actions_buffer = <<>>
    /\ contents = <<>>
    /\ pc = "idle"
    /\ exc = ""
    /\ tries = 0
    /\ calls = 0
    /\ last_resp = NoCall
    /\ first_done = FALSE
    /\ mem_start = 0
    /\ acts = 0
    /\ total_calls = 0
    /\ empties = 0
    /\ current_messages = <<>>
    /\ relevance_target = NoTarget

NotActing == pc # "acting"

\* Person.set_context(context)
SetContext(context) ==
    /\ NotActing
    /\ configuration' = Put(configuration, "current_context", context)
    /\ UNCHANGED <<memory, actions_buffer, contents, pc, exc, tries, calls,
                   last_resp, first_done,  mem_start, acts, provider,
                   total_calls, empties, current_messages, relevance_target>>

\* Person.listen(message)
Listen(message) ==
    /\ NotActing
    /\ Len(memory) < MaxLogAtStart
    /\ memory' = store_in_memory(memory, StimulusEvent(message))
    /\ UNCHANGED <<configuration, actions_buffer, contents, pc, exc, tries, calls,
                   last_resp, first_done,  mem_start, acts, provider,
                   total_calls, empties, current_messages, relevance_target>>

\* the entry of act(): contents = []
EnterAct(mem) ==
    /\ acts < MaxActs
    /\ Len(mem) <= MaxLogAtStart
    /\ contents' = <<>>
    /\ pc' = "acting"
    /\ exc' = ""
    /\ tries' = 0
    /\ calls' = 0
    /\ last_resp' = NoCall
    /\ first_done' = FALSE
    /\ mem_start' = Len(mem)
    /\ acts' = acts + 1
    /\ UNCHANGED <<provider, total_calls, empties, current_messages, relevance_target>>

\* Person.act(return_actions=True), up to its loop
Act ==
    /\ NotActing
    /\ EnterAct(memory)
    /\ UNCHANGED <<configuration, memory, actions_buffer>>

\* Person.listen_and_act(message): listen, then act
ListenAndAct(message) ==
    /\ NotActing
    /\ Len(memory) < MaxLogAtStart
    /\ memory' = store_in_memory(memory, StimulusEvent(message))
    /\ EnterAct(memory')
    /\ UNCHANGED <<configuration, actions_buffer>>

\* act(): the loop is left and `contents` returned
ActReturn ==
    /\ AtLoopHead
    /\ LoopExits(contents)
    /\ pc' = "returned"
    /\ UNCHANGED <<configuration, memory, actions_buffer, contents, exc, tries,
                   calls, last_resp, first_done,  mem_start, acts, provider,
                   total_calls, empties, current_messages, relevance_target>>

\* _produce_message: reset_prompt() right before the call, so this is what
\* send_message is handed
PromptSent == reset_prompt(configuration, memory, fixed_prefix_length, lookback_length)

\* one attempt of aux_act_once under repeat_on_error: _produce_message (one
\* provider call), then the loop over the records of the response
ActOnce(resp) ==
    /\ pc = "acting"
    /\ tries > 0 \/ ~LoopExits(contents)
    /\ resp \in Responses(provider, memory)
    /\ WithinBudget(provider, resp, total_calls, empties)
    /\ empties' = IF resp = MsgResp(<<>>) THEN empties + 1 ELSE empties
    /\ calls' = calls + 1
    /\ total_calls' = total_calls + 1
    /\ last_resp' = resp
    /\ first_done' = IF calls = 0 THEN resp = MsgResp(<<RecDone>>) ELSE first_done
    /\ UNCHANGED <<mem_start, acts, provider>>
    /\ IF resp.kind = "raise"
       THEN \* the client raised: not a KeyError, so it leaves act()
            /\ pc' = "raised"
            /\ exc' = "ProviderError"
            /\ current_messages' = PromptSent
            /\ UNCHANGED <<configuration, memory, actions_buffer, contents, tries,
                           relevance_target>>
       ELSE IF resp.kind = "None"
       THEN \* next_message["role"] on None
            /\ pc' = "raised"
            /\ exc' = "TypeError"
            /\ current_messages' = PromptSent
            /\ UNCHANGED <<configuration, memory, actions_buffer, contents, tries,
                           relevance_target>>
       ELSE
         LET st0 == [mem |-> memory, buf |-> actions_buffer, cfg |-> configuration,
                     out |-> contents, err |-> "", msgs |-> PromptSent,
                     target |-> relevance_target]
             st == ProcessRecords(st0, resp.role, resp.content)
         IN
         /\ memory' = st.mem
         /\ current_messages' = st.msgs
         /\ relevance_target' = st.target
         /\ actions_buffer' = st.buf
         /\ configuration' = st.cfg
         /\ contents' = st.out
         /\ IF st.err = ""
            THEN /\ tries' = 0
                 /\ pc' = "acting"
                 /\ exc' = ""
            ELSE IF tries = RETRIES - 1
            THEN \* `if i == retries - 1: raise e`
                 /\ tries' = tries
                 /\ pc' = "raised"
                 /\ exc' = st.err
            ELSE /\ tries' = tries + 1
                 /\ pc' = "acting"
                 /\ exc' = ""

-----------------------------------------------------------------------------
(* The provider clients *)

\* a character that is not valid UTF-8 (a lone surrogate)
BadChar == "\\ud800"
Payloads == {<<"o", "k">>, <<"o", BadChar, "k">>}

\* the raw completion object of the OpenAI SDK, n = 1
RawResponse(payload) ==
    [choices |-> << [message |-> [role |-> "assistant", content |-> payload]] >>]

raw_model_response_extractor(response) == response.choices[1].message

\* value.encode("utf-8", "ignore").decode("utf-8")
sanitize_raw_string(value) == SelectSeq(value, LAMBDA ch : ch # BadChar)

\* sanitize_dict of a message: its strings lose their invalid characters
sanitize_dict(value) ==
    [role |-> value.role, content |-> sanitize_raw_string(value.content)]

Pending == [kind |-> "pending"]
NoneResult == [kind |-> "None"]
Raised(cl) == [kind |-> "raised", client |-> cl]
Returned(cl, role, content) ==
    [kind |-> "message", client |-> cl, role |-> role, content |-> content]

\* what _raw_model_call can do
Retryable == {"RateLimitError", "NonTerminalError"}
NonRetryable == {"InvalidRequestError", "BadRequestError"}
Errors == Retryable \cup NonRetryable \cup {"Exception"}
Failure(e) == [kind |-> e]
Success(payload) == [kind |-> "ok", response |-> RawResponse(payload)]
Outcomes == {Failure(e) : e \in Errors} \cup {Success(p) : p \in Payloads}

\* a client that ends only on InvalidRequestError
WontRetryBadRequestLost(e) == e = "InvalidRequestError"

\* except InvalidRequestError / except openai.BadRequestError: return None
WontRetry(e) == e \in NonRetryable

\* except openai.RateLimitError / except NonTerminalError: aux_exponential_backoff()
BacksOff(e) == e \in Retryable

\* an off-by-one loop test: one iteration too many
LoopContinuesOneMore(i, m) == i <= m

\* while i < default.get("max_attempts")
LoopContinues(i, m) == i < m

FALLBACK_WAIT == 2

\* aux_exponential_backoff: the seconds it sleeps
BackoffSleep(w) == IF w <= 0 THEN FALLBACK_WAIT ELSE w

\* a linear backoff
BackoffNextLinear(w, f) == BackoffSleep(w) + f

\* aux_exponential_backoff: the waiting_time it leaves
BackoffNext(w, f) == BackoffSleep(w) * f

Slept(kind, secs, at) == [kind |-> kind, secs |-> secs, at |-> at]

Requests == {"q1", "q2"}
Model == "gpt-4o"
CacheKey(model, request) == <<model, request>>

\* a client that forgets to keep the response
CacheStoreLost(cache, key, response) == cache

\* self.api_cache[cache_key] = response
CacheStore(cache, key, response) == Put(cache, key, response)

\* no send_message of the Anthropic client was made yet
NoAnthropicCall == [kind |-> "none"]

InitClients ==
    /\ api_cache = <<>>
    /\ cache_file = <<>>
    /\ o_pc = "idle"
    /\ cache_key = CacheKey(Model, "q1")
    /\ max_attempts = 0
    /\ base_wait = 0
    /\ exponential_backoff_factor = 0
    /\ waiting_time = 0
    /\ i_attempt = 0
    /\ o_attempts = <<>>
    /\ o_sleeps = <<>>
    /\ o_hit = FALSE
    /\ a_call = NoAnthropicCall
    /\ result = Pending

\* OpenAIClient.send_message, up to its loop
OpenAISendMessage(request, m, w, f) ==
    /\ client = "openai"
    /\ o_pc # "loop"
    /\ cache_key' = CacheKey(Model, request)
    /\ max_attempts' = m
    /\ base_wait' = w
    /\ exponential_backoff_factor' = f
    /\ waiting_time' = w
    /\ i_attempt' = 0
    /\ o_attempts' = <<>>
    /\ o_sleeps' = <<>>
    /\ o_hit' = FALSE
    /\ IF LoopContinues(0, m)
       THEN o_pc' = "loop" /\ result' = Pending
       ELSE o_pc' = "done" /\ result' = NoneResult
    /\ UNCHANGED <<cache_api_calls, api_cache, cache_file, client>>

\* a client that never finds a key in its cache
CacheHitNever(enabled, cache, key) == FALSE

\* `if self.cache_api_calls and (cache_key in self.api_cache)`
CacheHit(enabled, cache, key) == enabled /\ HasKey(cache, key)

\* OpenAIClient.send_message: one iteration of its loop
OpenAIAttempt(outcome) ==
    /\ o_pc = "loop"
    /\ i_attempt' = i_attempt + 1
    /\ UNCHANGED <<cache_api_calls, cache_key, max_attempts, base_wait,
                   exponential_backoff_factor, client>>
    /\ IF CacheHit(cache_api_calls, api_cache, cache_key)
       THEN /\ result' = Returned("openai", "assistant",
                   [shape |-> "text", value |->
                     sanitize_dict(raw_model_response_extractor(api_cache[cache_key])).content])
            /\ o_hit' = TRUE
            /\ o_pc' = "done"
            /\ UNCHANGED <<api_cache, cache_file, waiting_time, o_attempts, o_sleeps>>
       ELSE
         LET throttled == IF waiting_time > 0
                          THEN Append(o_sleeps, Slept("throttle", waiting_time, i_attempt + 1))
                          ELSE o_sleeps
         IN
         /\ o_attempts' = Append(o_attempts, outcome)
         /\ UNCHANGED o_hit
         /\ IF outcome.kind = "ok"
            THEN /\ api_cache' = IF cache_api_calls
                                 THEN CacheStore(api_cache, cache_key, outcome.response)
                                 ELSE api_cache
                 /\ cache_file' = IF cache_api_calls THEN api_cache' ELSE cache_file
                 /\ result' = Returned("openai", "assistant",
                        [shape |-> "text", value |->
                     sanitize_dict(raw_model_response_extractor(outcome.response)).content])
                 /\ o_sleeps' = throttled
                 /\ o_pc' = "done"
                 /\ UNCHANGED waiting_time
            ELSE IF WontRetry(outcome.kind)
            THEN /\ result' = NoneResult
                 /\ o_sleeps' = throttled
                 /\ o_pc' = "done"
                 /\ UNCHANGED <<api_cache, cache_file, waiting_time>>
            ELSE /\ IF BacksOff(outcome.kind)
                    THEN /\ o_sleeps' = Append(throttled,
                                Slept("backoff", BackoffSleep(waiting_time), i_attempt + 1))
                         /\ waiting_time' = BackoffNext(waiting_time, exponential_backoff_factor)
                    ELSE /\ o_sleeps' = throttled
                         /\ UNCHANGED waiting_time
                 /\ IF LoopContinues(i_attempt + 1, max_attempts)
                    THEN o_pc' = "loop" /\ result' = Pending
                    ELSE o_pc' = "done" /\ result' = NoneResult
                 /\ UNCHANGED <<api_cache, cache_file>>

\* the text of a Claude reply: whether it sits in a ```json fence, and its
\* segments, which "\n\n" separates
Objects == {"{a}", "{b}"}
BrokenObject == "{a"
Prose == "Here is the answer:"
Segments == Objects \cup {BrokenObject, Prose}
MaxSegments == 2
Text(fenced, segs) == [fenced |-> fenced, segs |-> segs]
Texts == {Text(fn, sg) : fn \in BOOLEAN,
                         sg \in UNION {[1..n -> Segments] : n \in 1..MaxSegments}}

\* re.sub(r"```json\n|```", "", text)
StripFences(text) == [text EXCEPT !.fenced = FALSE]

\* json.loads of a whole text works
Loads(text) == ~text.fenced /\ Len(text.segs) = 1 /\ text.segs[1] \in Objects

\* list_of_response[0].startswith("{")
StartsWithBrace(seg) == seg # Prose

\* the segments the second parse attempt hands to json.loads
ToParse(segs) == IF StartsWithBrace(segs[1]) THEN segs ELSE Tail(segs)

DictFallback == [role |-> "assistant", content |-> <<>>]

\* the first two parse attempts fail and the text goes to the backend for repair
NeedsRepair(text0) ==
    LET text == StripFences(text0) IN
    /\ ~Loads(text)
    /\ ~(\A k \in 1..Len(ToParse(text.segs)) : ToParse(text.segs)[k] \in Objects)

\* next_message["content"]: next_message is the SDK's Message object, which
\* has no item access, so this raises TypeError whatever the message holds
Subscript(message, key) == [kind |-> "TypeError"]

\* send_message's response_json for a text and the backend's reply to the
\* repair request, if one is made
ResponseJson(text0, repair) ==
    LET text == StripFences(text0) IN
    IF Loads(text)
    THEN [shape |-> "list", items |-> text.segs]
    ELSE IF \A k \in 1..Len(ToParse(text.segs)) : ToParse(text.segs)[k] \in Objects
    THEN [shape |-> "list", items |-> ToParse(text.segs)]
    ELSE LET got == IF repair.kind = "raise" THEN repair ELSE Subscript(repair, "content")
         IN IF got.kind = "value" /\ Loads(got.value)
            THEN [shape |-> "object", value |-> got.value.segs[1]]
            ELSE [shape |-> "dict", value |-> DictFallback]

BackendReplies == {[kind |-> "raise"]} \cup {[kind |-> "text", text |-> t] : t \in Texts}

\* what the backend can answer to "Fix this json"
RepairReplies ==
    {[kind |-> "raise"],
     [kind |-> "text", text |-> Text(FALSE, <<"{a}">>)],
     [kind |-> "text", text |-> Text(FALSE, <<BrokenObject>>)]}

\* AnthropicAPIClient.send_message: messages.create, the parse attempts and,
\* when they fail, the second messages.create with the repair request
AnthropicSendMessage(reply, repair) ==
    /\ client = "anthropic"
    /\ result' = IF reply.kind = "raise"
                 THEN Raised("anthropic")
                 ELSE Returned("anthropic", "assistant", ResponseJson(reply.text, repair))
    /\ a_call' = IF reply.kind = "raise"
                 THEN [kind |-> "raise"]
                 ELSE IF NeedsRepair(reply.text)
                 THEN [kind |-> "repaired", text |-> reply.text, repair |-> repair]
                 ELSE [kind |-> "parsed", text |-> reply.text]
    /\ UNCHANGED <<cache_api_calls, api_cache, cache_file, o_pc, cache_key, max_attempts,
                   base_wait, exponential_backoff_factor, waiting_time, i_attempt,
                   o_attempts, o_sleeps, o_hit, client>>

\* OllamaAPIClient.send_message
OllamaSendMessage(reply) ==
    /\ client = "ollama"
    /\ result' = IF reply.kind = "raise"
                 THEN Raised("ollama")
                 ELSE Returned("ollama", "assistant",
                               [shape |-> "text", value |-> reply.text])
    /\ UNCHANGED <<cache_api_calls, api_cache, cache_file, o_pc, cache_key, max_attempts,
                   base_wait, exponential_backoff_factor, waiting_time, i_attempt,
                   o_attempts, o_sleeps, o_hit, client>>

-----------------------------------------------------------------------------
(* The episodic memory of a Person and the operations on it *)

\* the default lengths of EpisodicMemory.__init__
DEFAULT_PREFIX_LENGTH == 100
DEFAULT_LOOKBACK_LENGTH == 100

InitMemory ==
    /\ fixed_prefix_length = DEFAULT_PREFIX_LENGTH
    /\ lookback_length = DEFAULT_LOOKBACK_LENGTH
    /\ ret = NoRetrieval

\* Person.store_in_memory(data)
StoreInMemory(data) ==
    /\ memory' = store_in_memory(memory, data)
    /\ UNCHANGED <<configuration, actions_buffer, contents, pc, exc, tries, calls,
                   last_resp, first_done, mem_start, acts, provider, total_calls,
                   empties, current_messages, relevance_target>>
    /\ UNCHANGED mem_vars

\* EpisodicMemory.retrieve_recent(include_omission_info)
RetrieveRecent(inc) ==
    /\ ret' = Retrieval("retrieve_recent", NotGiven, NotGiven, inc, NotGiven, Len(memory),
                        retrieve_recent(memory, fixed_prefix_length, lookback_length, inc))
    /\ UNCHANGED <<agent_vars, fixed_prefix_length, lookback_length>>

\* EpisodicMemory.retrieve(first_n, last_n, include_omission_info)
Retrieve(first_n, last_n, inc) ==
    /\ ret' = Retrieval("retrieve", first_n, last_n, inc, NotGiven, Len(memory),
                        retrieve(memory, first_n, last_n, inc))
    /\ UNCHANGED <<agent_vars, fixed_prefix_length, lookback_length>>

\* Person.retrieve_memories(first_n, last_n, include_omission_info, max_content_length)
RetrieveMemories(first_n, last_n, inc, max_content_length) ==
    LET episodes == retrieve(memory, first_n, last_n, inc) IN
    /\ ret' = Retrieval("retrieve_memories", first_n, last_n, inc,
                        Given(max_content_length), Len(memory),
                        truncate_actions_or_stimuli(episodes, max_content_length))
    /\ memory' = LogAfterTruncate(memory, episodes, max_content_length)
    /\ UNCHANGED <<configuration, actions_buffer, contents, pc, exc, tries, calls,
                   last_resp, first_done, mem_start, acts, provider, total_calls,
                   empties, current_messages, relevance_target,
                   fixed_prefix_length, lookback_length>>

\* Person.retrieve_recent_memories(max_content_length)
RetrieveRecentMemories(max_content_length) ==
    LET episodes == retrieve_recent(memory, fixed_prefix_length, lookback_length, TRUE) IN
    /\ ret' = Retrieval("retrieve_recent_memories", NotGiven, NotGiven, TRUE,
                        Given(max_content_length), Len(memory),
                        truncate_actions_or_stimuli(episodes, max_content_length))
    /\ memory' = LogAfterTruncate(memory, episodes, max_content_length)
    /\ UNCHANGED <<configuration, actions_buffer, contents, pc, exc, tries, calls,
                   last_resp, first_done, mem_start, acts, provider, total_calls,
                   empties, current_messages, relevance_target,
                   fixed_prefix_length, lookback_length>>

-----------------------------------------------------------------------------
(* chunk_text and SemanticMemory *)

NoChunking == [pc |-> "idle", text |-> <<>>, chunk_size |-> 0, overlap |-> 0,
               start |-> 0, chunks |-> <<>>]

\* text[start:end] with start counted from 0
Slice(text, start, end) == SubSeq(text, start + 1, Min(end, Len(text)))

\* a step that forgets the overlap
ChunkStrideNoOverlap(chunk_size, overlap) == chunk_size

\* start += chunk_size - overlap
ChunkStride(chunk_size, overlap) == chunk_size - overlap

\* chunk_text(text, chunk_size, overlap): chunks = [], start = 0
ChunkText(text, chunk_size, overlap) ==
    /\ chunking.pc # "loop"
    /\ chunking' = [pc |-> "loop", text |-> text, chunk_size |-> chunk_size,
                    overlap |-> overlap, start |-> 0, chunks |-> <<>>]
    /\ UNCHANGED <<documents, last_define>>

\* chunk_text: the test of the while loop and one pass through its body, or
\* the return
ChunkStep ==
    /\ chunking.pc = "loop"
    /\ IF chunking.start < Len(chunking.text)
       THEN chunking' =
              [chunking EXCEPT
                 !.chunks = Append(@, Slice(chunking.text, chunking.start,
                                            chunking.start + chunking.chunk_size)),
                 !.start = @ + ChunkStride(chunking.chunk_size, chunking.overlap)]
       ELSE chunking' = [chunking EXCEPT !.pc = "done"]
    /\ UNCHANGED <<documents, last_define>>

\* SemanticMemory._preprocess_value_for_storage(value)
preprocess_value_for_storage(value) ==
    IF value.type = "action"
    THEN <<"# Fact", "I have performed the following action at date and time",
           value.simulation_timestamp, value.content>>
    ELSE IF value.type = "stimulus"
    THEN <<"# Stimulus", "I have received the following stimulus at date and time",
           value.simulation_timestamp, value.content>>
    ELSE "None"

\* SemanticMemory.store(value): TinyMemory.store hands the engram to _store,
\* which adds one document to the knowledge base
SemanticStore(value) ==
    /\ documents' = Append(documents, [doc_text |-> preprocess_value_for_storage(value)])
    /\ UNCHANGED <<chunking, last_define>>

-----------------------------------------------------------------------------
(* Person.define *)

\* a string value is its lines, each with the number of blanks it starts with
\* and the rest of it; a line of blanks only has an empty rest
Line(indent, rest) == [indent |-> indent, rest |-> rest]
Str(lines) == [str |-> TRUE, lines |-> lines]
NotStr(v) == [str |-> FALSE, v |-> v]

IsBlankLine(line) == line.rest = ""

\* textwrap.dedent: the margin is the least indentation of the lines that are
\* not blank
Margin(lines) ==
    LET solid == {k \in 1..Len(lines) : ~IsBlankLine(lines[k])}
    IN IF solid = {} THEN 0
       ELSE CHOOSE m \in {lines[k].indent : k \in solid} :
              \A k \in solid : m <= lines[k].indent

\* a dedent that takes nothing off
dedent_kept(lines) == lines

\* textwrap.dedent(text): blank lines are emptied, the margin is taken off the others
dedent(lines) ==
    [k \in 1..Len(lines) |->
       IF IsBlankLine(lines[k]) THEN Line(0, "")
       ELSE Line(lines[k].indent - Margin(lines), lines[k].rest)]

\* the value Person.define stores
StoredValue(value) == IF value.str THEN Str(dedent(value.lines)) ELSE value

NoDefine == [key |-> "", value |-> NotStr(0), raised |-> FALSE]

\* Person.define(key, value)
Define(key, value) ==
    /\ configuration' = [configuration EXCEPT !.persona = Put(@, key, StoredValue(value))]
    /\ last_define' = [key |-> key, value |-> value, raised |-> FALSE]
    /\ UNCHANGED <<memory, actions_buffer, contents, pc, exc, tries, calls, last_resp,
                   first_done, mem_start, acts, provider, total_calls, empties,
                   current_messages, relevance_target>>
    /\ UNCHANGED <<chunking, documents>>

InitLibrary ==
    /\ chunking = NoChunking
    /\ documents = <<>>
    /\ last_define = NoDefine

-----------------------------------------------------------------------------
(* Inputs and specifications *)

EvaluateAds ==
    <<"E", "v", "a", "l", "u", "a", "t", "e", " ", "A", "d", " ", "1", " ", "v", "s", " ", "A", "d", " ", "2">>
Messages == {EvaluateAds}
Contexts == {"ctx"}

MaxAttemptsBound == 3
AttemptLimits == 0..MaxAttemptsBound
WaitingTimes == {-1, 0, 3}
Factors == {2, 3}

Next ==
    \/ (\E c \in Contexts : SetContext(c)) /\ UNCHANGED <<llm_vars, mem_vars, lib_vars>>
    \/ (\E m \in Messages : Listen(m)) /\ UNCHANGED <<llm_vars, mem_vars, lib_vars>>
    \/ Act /\ UNCHANGED <<llm_vars, mem_vars, lib_vars>>
    \/ (\E m \in Messages : ListenAndAct(m)) /\ UNCHANGED <<llm_vars, mem_vars, lib_vars>>
    \/ ActReturn /\ UNCHANGED <<llm_vars, mem_vars, lib_vars>>
    \/ (\E resp \in AllResponses : ActOnce(resp)) /\ UNCHANGED <<llm_vars, mem_vars, lib_vars>>

Clients == {"openai", "anthropic", "ollama"}

Init ==
    /\ InitAgent
    /\ InitClients
    /\ cache_api_calls = FALSE
    /\ client = "anthropic"
    /\ InitMemory
    /\ InitLibrary

Spec == Init /\ [][Next]_vars

NextLLM ==
    \/ /\ \E request \in Requests, m \in AttemptLimits, w \in WaitingTimes, f \in Factors :
              OpenAISendMessage(request, m, w, f)
       /\ UNCHANGED <<agent_vars, mem_vars, lib_vars, a_call>>
    \/ (\E outcome \in Outcomes : OpenAIAttempt(outcome))
          /\ UNCHANGED <<agent_vars, mem_vars, lib_vars, a_call>>
    \/ (\E reply \in BackendReplies, repair \in RepairReplies :
            AnthropicSendMessage(reply, repair))
          /\ UNCHANGED <<agent_vars, mem_vars, lib_vars>>
    \/ (\E reply \in BackendReplies : OllamaSendMessage(reply))
          /\ UNCHANGED <<agent_vars, mem_vars, lib_vars, a_call>>

InitLLM ==
    /\ InitAgent
    /\ provider = "steady"
    /\ InitClients
    /\ client \in Clients
    /\ cache_api_calls \in (IF client = "openai" THEN BOOLEAN ELSE {FALSE})
    /\ InitMemory
    /\ InitLibrary

SpecLLM == InitLLM /\ [][NextLLM]_vars

\* the texts of the events stored when retrievals are exercised
ShortText == <<"o", "k">>
LongText == <<"a", "d", "1">>
StoredEvents ==
    {ActionEvent("assistant", [action |-> Action("TALK", LongText),
                               cognitive_state |-> CognitiveState("gA")])}

MaxLog == 4
MaxN == 2
MaxPrefix == 1
MaxLookback == 1
MaxContentLength == 2
Bounds == {NotGiven} \cup {Given(n) : n \in 0..MaxN}

NextMem ==
    \/ /\ Len(memory) < MaxLog
       /\ \E data \in StoredEvents : StoreInMemory(data)
       /\ UNCHANGED <<llm_vars, lib_vars>>
    \/ /\ Len(memory) < MaxLog
       /\ Listen(ShortText)
       /\ UNCHANGED <<llm_vars, mem_vars, lib_vars>>
    \/ (\E inc \in BOOLEAN : RetrieveRecent(inc)) /\ UNCHANGED <<llm_vars, lib_vars>>
    \/ (\E f \in Bounds, l \in Bounds, inc \in BOOLEAN : Retrieve(f, l, inc))
          /\ UNCHANGED <<llm_vars, lib_vars>>
    \/ (\E f \in Bounds, l \in Bounds, inc \in BOOLEAN :
            RetrieveMemories(f, l, inc, MaxContentLength))
          /\ UNCHANGED <<llm_vars, lib_vars>>
    \/ RetrieveRecentMemories(MaxContentLength) /\ UNCHANGED <<llm_vars, lib_vars>>

InitMem ==
    /\ InitAgent
    /\ provider = "steady"
    /\ InitClients
    /\ cache_api_calls = FALSE
    /\ client = "anthropic"
    /\ fixed_prefix_length \in 0..MaxPrefix
    /\ lookback_length \in 0..MaxLookback
    /\ ret = NoRetrieval
    /\ InitLibrary

SpecMem == InitMem /\ [][NextMem]_vars

MaxText == 4
MaxChunkSize == 3
MaxDocuments == 2
Characters == {"a", "b"}
RECURSIVE TextsOfLength(_)
TextsOfLength(n) ==
    IF n = 0 THEN {<<>>}
    ELSE {Append(t, c) : t \in TextsOfLength(n - 1), c \in Characters}
ChunkTexts == UNION {TextsOfLength(n) : n \in 0..MaxText}
StoredValues ==
    {[type |-> "stimulus", content |-> "Evaluate Ad 1 vs Ad 2", simulation_timestamp |-> iso_datetime],
     [type |-> "action", content |-> "I choose Ad 1", simulation_timestamp |-> iso_datetime]}

NextRag ==
    \/ /\ \E text \in ChunkTexts, w \in 1..MaxChunkSize :
            \E o \in 0..(w - 1) : ChunkText(text, w, o)
       /\ UNCHANGED <<agent_vars, llm_vars, mem_vars>>
    \/ ChunkStep /\ UNCHANGED <<agent_vars, llm_vars, mem_vars>>
    \/ /\ Len(documents) < MaxDocuments
       /\ chunking.pc = "idle"
       /\ \E value \in StoredValues : SemanticStore(value)
       /\ UNCHANGED <<agent_vars, llm_vars, mem_vars>>

InitRag ==
    /\ InitAgent
    /\ provider = "steady"
    /\ InitClients
    /\ cache_api_calls = FALSE
    /\ client = "anthropic"
    /\ InitMemory
    /\ InitLibrary

SpecRag == InitRag /\ [][NextRag]_vars

\* the persona keys of the schema, and one outside it
RecognizedKeys ==
    {"name", "age", "nationality", "country_of_residence", "occupation", "routines",
     "occupation_description", "personality_traits", "professional_interests",
     "personal_interests", "skills", "relationships"}
DefineKeys == {"name", "occupation_description", "favorite_color"}
DefineValues ==
    {Str(<<Line(0, "Joe")>>),
     Str(<<Line(2, "An architect."), Line(4, "Designs houses.")>>),
     Str(<<Line(0, "Works"), Line(3, ""), Line(1, "hard.")>>),
     NotStr(35)}

NextPersona ==
    (\E key \in DefineKeys, value \in DefineValues : Define(key, value))
       /\ UNCHANGED <<llm_vars, mem_vars>>

\* Person.__init__: nothing is defined yet
InitPersona ==
    /\ memory = <<>>
    /\ provider = "steady"
    /\ configuration = [persona |-> <<>>, current_datetime |-> iso_datetime]
    /\ actions_buffer = <<>>
    /\ contents = <<>>
    /\ pc = "idle"
    /\ exc = ""
    /\ tries = 0
    /\ calls = 0
    /\ last_resp = NoCall
    /\ first_done = FALSE
    /\ mem_start = 0
    /\ acts = 0
    /\ total_calls = 0
    /\ empties = 0
    /\ current_messages = <<>>
    /\ relevance_target = NoTarget
    /\ InitClients
    /\ cache_api_calls = FALSE
    /\ client = "anthropic"
    /\ InitMemory
    /\ InitLibrary

SpecPersona == InitPersona /\ [][NextPersona]_vars

-----------------------------------------------------------------------------
(* Properties of Person.act, stated for Spec *)

\* the last three records of c carry the same action
LastThreeSame(c) ==
    /\ Len(c) >= 3
    /\ c[Len(c)].action = c[Len(c) - 1].action
    /\ c[Len(c) - 1].action = c[Len(c) - 2].action

LastIsDone(c) == Len(c) > 0 /\ Last(c).action.type = "DONE"

\* the records of the action events stored since the running act() was entered
StoredSince ==
    LET evs == SelectSeq(SubSeq(memory, mem_start + 1, Len(memory)),
                         LAMBDA e : e.type = "action")
    IN [k \in 1..Len(evs) |-> evs[k].content]

(* C1: the action loop ends within MAX_ACTIONS_BEFORE_DONE + 1 production
   steps whatever the provider answers: no invocation of act() ever makes
   more than 16 provider calls. *)
C1_StepsBounded == calls <= MAX_ACTIONS_BEFORE_DONE + 1

(* C2, as stated: whenever the last three produced actions are identical the
   loop ends without a further provider call, however many actions came
   before them. *)
C2_RepetitionAlwaysEnds ==
    [][(AtLoopHead /\ LastThreeSame(contents))
          => (pc' = "returned" /\ calls' = calls)]_vars

(* C2, amended: the repetition test is made before each production step and
   only once at least five records are in the list: if then the last three
   actions are identical, act() returns the list without a further provider
   call; while the list holds only three or four records, the last three
   identical and not DONE, a further provider call is made. *)
C2_RepetitionEndsFromFive ==
    [][/\ (AtLoopHead /\ Len(contents) >= 5 /\ LastThreeSame(contents))
             => (pc' = "returned" /\ calls' = calls /\ contents' = contents)
       /\ (AtLoopHead /\ Len(contents) < 5 /\ LastThreeSame(contents)
              /\ ~LastIsDone(contents))
             => (calls' = calls + 1)]_vars

C2_Witness ==
    /\ pc = "returned"
    /\ Len(contents) >= 5
    /\ Len(contents) <= MAX_ACTIONS_BEFORE_DONE
    /\ LastThreeSame(contents)
    /\ ~LastIsDone(contents)

(* C3: act() leaves its loop as soon as the most recently produced action
   is DONE: once a provider call of the running act() has answered with
   records of which the last is a DONE record, that invocation makes no
   further provider call. *)
C3_NoCallAfterDone ==
    [][(/\ pc = "acting"
        /\ last_resp.kind = "message"
        /\ Len(last_resp.content) > 0
        /\ Last(last_resp.content) = RecDone)
          => calls' = calls]_vars

(* C4: however the loop ends, what act() returns is the list of the actions
   it produced in this invocation: the records of the action events it
   stored since it was entered, in order. *)
C4_ReturnsWhatItProduced == pc = "returned" => contents = StoredSince

(* C5: an agent with only its persona defined that hears one CONVERSATION
   stimulus and whose provider first answers with a single DONE record makes
   exactly one provider call and returns the one-element list of that
   record. *)
C5_OneCallOneDone ==
    (/\ acts = 1
     /\ first_done
     /\ ~HasKey(configuration, "current_context")
     /\ mem_start = 1
     /\ memory[1].type = "stimulus")
        => (/\ calls = 1
            /\ pc \in {"acting", "returned"}
            /\ tries = 0
            /\ contents = <<RecDone>>)

(* C7: a provider answer that is absent, or whose content is the empty list,
   is no action: act() raises nothing on it. *)
C7_NothingRaisedOnNoAnswer ==
    (last_resp = NoneResp \/ last_resp = MsgResp(<<>>)) => pc # "raised"

-----------------------------------------------------------------------------
(* Properties of the provider clients, stated for SpecLLM *)

RECURSIVE Pow(_, _)
Pow(b, e) == IF e = 0 THEN 1 ELSE b * Pow(b, e - 1)

RECURSIVE SumSecs(_)
SumSecs(sl) == IF sl = <<>> THEN 0 ELSE Head(sl).secs + SumSecs(Tail(sl))

BackoffSleeps == SelectSeq(o_sleeps, LAMBDA sl : sl.kind = "backoff")

\* the message of a raw response as send_message hands it out
Handed(response) ==
    [kind |-> "message", client |-> "openai",
     role |-> response.choices[1].message.role,
     content |-> [shape |-> "text",
                  value |-> SelectSeq(response.choices[1].message.content,
                                      LAMBDA ch : ch # BadChar)]]

FailedFailedSucceeded ==
    /\ client = "openai"
    /\ o_pc = "done"
    /\ Len(o_attempts) = 3
    /\ o_attempts[1].kind \in {"RateLimitError", "NonTerminalError"}
    /\ o_attempts[2].kind \in {"RateLimitError", "NonTerminalError"}
    /\ o_attempts[3].kind = "ok"

\* the base wait of the backoff schedule
FirstBackoff == IF base_wait <= 0 THEN 2 ELSE base_wait

(* C6: every client gives its caller the same thing: it never raises, and
   what it returns is either nothing or a role with a content that is a list
   of parsed records. *)
C6_UniformResult ==
    /\ result.kind # "raised"
    /\ result.kind = "message" => result.content.shape = "list"

(* C8: one send_message makes at most max_attempts backend calls; when every
   call fails with an error that is retried (and the request was not served
   from the cache) it returns None after exactly max_attempts calls; a call
   that succeeds is the last one and its response is what is returned. *)
C8_AttemptsBounded ==
    client = "openai" =>
      /\ Len(o_attempts) <= max_attempts
      /\ \A k \in 1..Len(o_attempts) : o_attempts[k].kind = "ok" => k = Len(o_attempts)
      /\ (/\ o_pc = "done"
          /\ ~o_hit
          /\ \A k \in 1..Len(o_attempts) :
                o_attempts[k].kind \in {"RateLimitError", "NonTerminalError", "Exception"})
            => (result = NoneResult /\ Len(o_attempts) = max_attempts)
      /\ (Len(o_attempts) > 0 /\ Last(o_attempts).kind = "ok")
            => (o_pc = "done" /\ result = Handed(Last(o_attempts).response))

C8_Witness ==
    /\ client = "openai"
    /\ o_pc = "done"
    /\ max_attempts >= 2
    /\ Len(o_attempts) = max_attempts
    /\ \A k \in 1..Len(o_attempts) : o_attempts[k].kind = "RateLimitError"
    /\ result = NoneResult

(* C9: a backend call that fails with an invalid request or bad request error
   is the last call of its send_message, which returns None: nothing is
   retried and no backoff sleep follows it. *)
C9_InvalidRequestEnds ==
    client = "openai" =>
      \A k \in 1..Len(o_attempts) :
        o_attempts[k].kind \in {"InvalidRequestError", "BadRequestError"}
          => /\ k = Len(o_attempts)
             /\ o_pc = "done"
             /\ result = NoneResult
             /\ \A j \in 1..Len(o_sleeps) :
                   o_sleeps[j].kind = "backoff" => o_sleeps[j].at < k

C9_Witness ==
    /\ client = "openai"
    /\ o_pc = "done"
    /\ max_attempts = 3
    /\ Len(o_attempts) = 2
    /\ o_attempts[1].kind = "RateLimitError"
    /\ o_attempts[2].kind = "BadRequestError"
    /\ result = NoneResult

(* C11: with caching enabled, an iteration of send_message whose cache key
   is in the cache answers from the cache: no backend call, no sleep, the
   cache and its file untouched; an iteration whose key is absent makes the
   backend call and, when it succeeds, leaves the response under that key in
   the cache and in the cache file, every other entry as it was; a failed
   call leaves both untouched. *)
C11_CacheHitOrStore ==
    [][(client = "openai" /\ o_pc = "loop" /\ cache_api_calls) =>
         IF cache_key \in DOMAIN api_cache
         THEN /\ o_attempts' = o_attempts
              /\ o_sleeps' = o_sleeps
              /\ api_cache' = api_cache
              /\ cache_file' = cache_file
              /\ result' = Handed(api_cache[cache_key])
         ELSE /\ Len(o_attempts') = Len(o_attempts) + 1
              /\ IF Last(o_attempts').kind = "ok"
                 THEN /\ DOMAIN api_cache' = DOMAIN api_cache \cup {cache_key}
                      /\ api_cache'[cache_key] = Last(o_attempts').response
                      /\ \A k \in DOMAIN api_cache : api_cache'[k] = api_cache[k]
                      /\ cache_file' = api_cache'
                 ELSE api_cache' = api_cache /\ cache_file' = cache_file]_vars

C11_Witness ==
    /\ client = "openai"
    /\ cache_api_calls
    /\ o_pc = "done"
    /\ o_hit
    /\ o_attempts = <<>>
    /\ result.kind = "message"
    /\ Cardinality(DOMAIN cache_file) = 2

(* C10, as stated: with base wait w and factor f, after two transient
   failures and a success the success is returned and the time slept in
   total is w + w*f. *)
C10_TotalSleptIsBackoff ==
    FailedFailedSucceeded
      => /\ result = Handed(o_attempts[3].response)
         /\ SumSecs(o_sleeps) = base_wait + base_wait * exponential_backoff_factor

(* C10, amended: with base wait w (2 when the configured waiting time is not
   positive) and factor f, the backoff sleep after the k-th rate-limit or
   non-terminal failure is w * f^(k-1); after two such failures and a success
   the success is returned and the backoff sleeps total w + w*f, while the
   time slept in total also holds the sleep of the current waiting time made
   before every backend call: the configured waiting time (when positive),
   then w*f, then w*f^2. *)
C10_BackoffSchedule ==
    client = "openai" =>
      /\ \A k \in 1..Len(BackoffSleeps) :
            BackoffSleeps[k].secs = FirstBackoff * Pow(exponential_backoff_factor, k - 1)
      /\ FailedFailedSucceeded
           => /\ result = Handed(o_attempts[3].response)
              /\ SumSecs(BackoffSleeps)
                   = FirstBackoff + FirstBackoff * exponential_backoff_factor
              /\ SumSecs(o_sleeps)
                   = SumSecs(BackoffSleeps)
                     + (IF base_wait > 0 THEN base_wait ELSE 0)
                     + FirstBackoff * exponential_backoff_factor
                     + FirstBackoff * Pow(exponential_backoff_factor, 2)

C10_Witness ==
    /\ FailedFailedSucceeded
    /\ base_wait > 0
    /\ Len(o_sleeps) = 5


-----------------------------------------------------------------------------
(* Properties of episodic memory, stated for SpecMem *)

IsSentinel(e) == e = MEMORY_BLOCK_OMISSION_INFO

\* the entries of a retrieval that are not omission sentinels, in order
StoredOf(s) == SelectSeq(s, LAMBDA e : ~IsSentinel(e))

SentinelsOf(s) == SelectSeq(s, LAMBDA e : IsSentinel(e))

\* the log as it was when the last retrieval was made: the log only grows
LogAtCall == SubSeq(memory, 1, ret.n)

\* the true last n events of a log, none for n = 0
LastEvents(log, n) == SubSeq(log, Len(log) - Min(n, Len(log)) + 1, Len(log))

\* C12: retrieve_recent returns at most fixed_prefix_length + lookback_length + 1
\* entries, and its stored events are a run from the start of the log of at
\* most fixed_prefix_length events followed by a later, separate run from the
\* end of the log of at most lookback_length events, each in log order.
C12_RecentBounded ==
    ret.op = "retrieve_recent" =>
      /\ Len(ret.value) <= fixed_prefix_length + lookback_length + 1
      /\ \E a \in 0..Min(fixed_prefix_length, ret.n) :
           \E k \in 0..Min(lookback_length, ret.n - a) :
             /\ StoredOf(ret.value) = SliceFirst(LogAtCall, a) \o LastEvents(LogAtCall, k)
             /\ \A j \in 1..Len(ret.value) :
                  IsSentinel(ret.value[j]) => j = a + 1

C12_Witness ==
    /\ ret.op = "retrieve_recent"
    /\ fixed_prefix_length = 1
    /\ lookback_length = 1
    /\ ret.n = MaxLog
    /\ Len(ret.value) = 3
    /\ ret.value[1] = LogAtCall[1]
    /\ ret.value[3] = LogAtCall[ret.n]


\* C13: retrieve_recent returns, after the first fixed_prefix_length stored
\* events, min(lookback_length, max(0, len(log) - len(prefix))) lookback
\* events; a log no longer than fixed_prefix_length gives the prefix alone, and
\* there is no omission sentinel when no stored event is skipped.
C13_LookbackCount ==
    ret.op = "retrieve_recent" =>
      LET prefix == SliceFirst(LogAtCall, fixed_prefix_length)
          rest == ret.n - Len(prefix)
          k == Min(lookback_length, IF rest > 0 THEN rest ELSE 0)
      IN /\ StoredOf(ret.value) = prefix \o LastEvents(LogAtCall, k)
         /\ (ret.n <= fixed_prefix_length => ret.value = prefix)
         /\ (Len(prefix) + k = ret.n => SentinelsOf(ret.value) = <<>>)

\* C14: retrieve with both bounds given returns the first_n earliest events
\* followed by the last_n latest events, with exactly one omission sentinel
\* between them when first_n + last_n is less than the log length and none
\* when the two slices cover the whole log.
C14_BothBounds ==
    (ret.op = "retrieve" /\ ret.first.given /\ ret.last.given /\ ret.inc) =>
      ret.value = SliceFirst(LogAtCall, ret.first.n)
                    \o (IF ret.first.n + ret.last.n < ret.n
                        THEN <<MEMORY_BLOCK_OMISSION_INFO>> ELSE <<>>)
                    \o LastEvents(LogAtCall, ret.last.n)

\* C15: retrieve with only first_n given returns exactly the first_n earliest
\* events, with only last_n given exactly the last_n latest events, and with
\* neither given the full log.
C15_OneBound ==
    ret.op = "retrieve" =>
      /\ (ret.first.given /\ ~ret.last.given /\ ret.first.n <= ret.n)
            => ret.value = SliceFirst(LogAtCall, ret.first.n)
      /\ (~ret.first.given /\ ret.last.given /\ ret.last.n <= ret.n)
            => ret.value = LastEvents(LogAtCall, ret.last.n)
      /\ (~ret.first.given /\ ~ret.last.given) => ret.value = LogAtCall

\* C16: the episodic log is append-only and its events immutable: every
\* operation leaves the log as it was or adds exactly one entry at its end,
\* and a retrieval, truncating or not, leaves the log as it was.
C16_AppendOnly ==
    [][/\ \/ memory' = memory
          \/ /\ Len(memory') = Len(memory) + 1
             /\ SubSeq(memory', 1, Len(memory)) = memory
       /\ ret' # ret => memory' = memory]_vars

C16_Witness ==
    /\ ret.op = "retrieve_memories"
    /\ ret.n = 2
    /\ Len(memory) = 3
    /\ \E j \in 1..Len(ret.value) : \E k \in 1..ret.n :
         /\ HasKey(memory[k].content, "action")
         /\ ret.value[j] = TruncateElement(memory[k], MaxContentLength)
         /\ ret.value[j] # memory[k]


\* C27: with a lookback of at least one, retrieve_recent of a log that is
\* not empty holds the most recently stored event; and of a log no longer than
\* fixed_prefix_length + lookback_length it holds every stored event once.
C27_RecentHoldsLatest ==
    ret.op = "retrieve_recent" =>
      /\ (ret.n >= 1 /\ lookback_length >= 1) =>
           /\ StoredOf(ret.value) # <<>>
           /\ Last(StoredOf(ret.value)) = Last(LogAtCall)
      /\ ret.n <= fixed_prefix_length + lookback_length =>
           StoredOf(ret.value) = LogAtCall

-----------------------------------------------------------------------------
(* Properties of chunk_text, stated for SpecRag *)

\* the chunks from the k-th on put together again: the first as it is, every
\* later one without its first `overlap` characters
RECURSIVE Rejoin(_, _, _)
Rejoin(chunks, overlap, k) ==
    IF k > Len(chunks) THEN <<>>
    ELSE (IF k = 1 THEN chunks[1] ELSE SubSeq(chunks[k], overlap + 1, Len(chunks[k])))
           \o Rejoin(chunks, overlap, k + 1)

\* C17: for 0 <= overlap < chunk_size chunk_text terminates, its loop making
\* at most one pass per character of the text, and its first chunk followed by
\* every later chunk without its first `overlap` characters is the text.
C17_ChunksRejoin ==
    /\ chunking.pc \in {"loop", "done"} =>
         /\ Len(chunking.chunks) <= Len(chunking.text)
         /\ chunking.start >= Len(chunking.chunks)
    /\ chunking.pc = "done" =>
         Rejoin(chunking.chunks, chunking.overlap, 1) = chunking.text

C17_Witness ==
    /\ chunking.pc = "done"
    /\ Len(chunking.text) = MaxText
    /\ chunking.chunk_size = 3
    /\ chunking.overlap = 2
    /\ Len(chunking.chunks) = MaxText
    /\ Len(chunking.chunks[MaxText]) < chunking.overlap

-----------------------------------------------------------------------------
(* Properties of Person.define, stated for SpecPersona *)

\* C18 as the specification has it: a read after define(key, value) of a
\* recognized key gives exactly the value that was passed.
C18_ReadsWhatWasPassed ==
    last_define.key \in RecognizedKeys =>
      configuration.persona[last_define.key] = last_define.value

\* what a read gives for a string that was passed: the same lines with the same
\* text, blank lines emptied, the others moved left together as far as they go
SameButDedented(got, value) ==
    /\ got.str
    /\ Len(got.lines) = Len(value.lines)
    /\ \A k \in 1..Len(value.lines) :
         /\ got.lines[k].rest = value.lines[k].rest
         /\ got.lines[k].indent >= 0
         /\ IsBlankLine(value.lines[k]) => got.lines[k].indent = 0
    /\ \A j, k \in 1..Len(value.lines) :
         (~IsBlankLine(value.lines[j]) /\ ~IsBlankLine(value.lines[k])) =>
           got.lines[j].indent - got.lines[k].indent
             = value.lines[j].indent - value.lines[k].indent
    /\ (\E k \in 1..Len(value.lines) : ~IsBlankLine(value.lines[k])) =>
         \E k \in 1..Len(value.lines) :
           ~IsBlankLine(value.lines[k]) /\ got.lines[k].indent = 0

\* C18: a read after define(key, value) of a recognized key gives the value
\* that was passed, a string without the leading whitespace common to its
\* non-blank lines and with its whitespace-only lines emptied, and a define
\* leaves the attributes of every other key as they were.
C18_ReadsDedented ==
    [][LET key == last_define'.key
           value == last_define'.value
       IN /\ key \in RecognizedKeys =>
               /\ HasKey(configuration'.persona, key)
               /\ IF value.str
                  THEN SameButDedented(configuration'.persona[key], value)
                  ELSE configuration'.persona[key] = value
          /\ \A k \in DOMAIN configuration.persona :
               k # key => /\ HasKey(configuration'.persona, k)
                          /\ configuration'.persona[k] = configuration.persona[k]]_vars

C18_Witness ==
    /\ last_define.key = "occupation_description"
    /\ last_define.value.str
    /\ Margin(last_define.value.lines) = 2
    /\ configuration.persona["occupation_description"] # last_define.value
    /\ HasKey(configuration.persona, "name")
    /\ configuration.persona["name"] = NotStr(35)

\* C19: define with a key outside the enumerated persona schema fails with a
\* validation error and the key is not added to the persona.
C19_UnknownKeyRejected ==
    /\ (last_define.key # "" /\ last_define.key \notin RecognizedKeys) => last_define.raised
    /\ DOMAIN configuration.persona \subseteq RecognizedKeys

-----------------------------------------------------------------------------
(* Properties of semantic memory, stated for Spec *)

\* C20: every event that listen or act stores in episodic memory is also
\* stored in semantic memory as an engram: as many documents were added as
\* episodic events were stored.
C20_EngramPerEvent == Len(documents) = Len(memory)


-----------------------------------------------------------------------------
(* Properties of the prompt of Person.act, stated for Spec *)

\* a step that calls the provider
ProviderCalled == total_calls' = total_calls + 1

\* the template variables of the system message of a prompt
VariablesOf(prompt) == prompt[1].content.template_variables

\* the episodic events in a prompt, between the system message and the final
\* user message
WindowOf(prompt) == SubSeq(prompt, 2, Len(prompt) - 1)

ActionIndexes(mem) == {k \in 1..Len(mem) : mem[k].type = "action"}

LastActionRecord(mem) ==
    mem[CHOOSE k \in ActionIndexes(mem) : \A j \in ActionIndexes(mem) : j <= k].content

\* the cognitive state a prompt is built from is the one of record r
BuiltFromStateOf(prompt, r) ==
    LET tv == VariablesOf(prompt)
        cs == r.cognitive_state
    IN /\ {"goals", "attention", "emotions"} \subseteq DOMAIN cs
       /\ {"current_goals", "current_attention", "current_emotions"} \subseteq DOMAIN tv
       /\ tv.current_goals = cs.goals
       /\ tv.current_attention = cs.attention
       /\ tv.current_emotions = cs.emotions

\* the events a step stores are the stimulus heard, or the records of the
\* provider's answer from the first on, in the order of the answer
StoredInCallOrder ==
    IF ProviderCalled
    THEN IF last_resp'.kind = "message"
         THEN \E n \in 0..Len(last_resp'.content) :
                memory' = memory \o [k \in 1..n |->
                                       ActionEvent(last_resp'.role, last_resp'.content[k])]
         ELSE memory' = memory
    ELSE \/ memory' = memory
         \/ \E m \in Messages : memory' = Append(memory, StimulusEvent(m))

\* C21: events are stored in the order the stimuli were received and the
\* actions produced, and at every provider call the prompt is built from the
\* cognitive state of the most recently stored action record and from a
\* recent-memory window that holds the most recently stored event.
C21_NoStaleState ==
    [][/\ StoredInCallOrder
       /\ ProviderCalled =>
            /\ ActionIndexes(memory) # {} =>
                 BuiltFromStateOf(PromptSent, LastActionRecord(memory))
            /\ memory # <<>> =>
                 \E j \in 1..Len(WindowOf(PromptSent)) :
                   WindowOf(PromptSent)[j] = Last(memory)]_vars


\* the point of time an ISO timestamp stands for; the ISO form of two
\* datetimes orders as the datetimes do
ClockOf(timestamp) == timestamp[2]

\* C22: the timestamps of the events of the episodic log never decrease along
\* the log.
C22_TimestampsOrdered ==
    \A j, k \in 1..Len(memory) :
      j <= k => ClockOf(memory[j].simulation_timestamp)
                  <= ClockOf(memory[k].simulation_timestamp)

C22_Witness ==
    /\ Len(memory) >= 4
    /\ memory[1].type = "stimulus"
    /\ memory[2].type = "stimulus"
    /\ memory[3].type = "action"
    /\ memory[Len(memory)].type = "action"
    /\ acts = MaxActs
    /\ pc = "returned"


\* a step of act() or into act()
ActStep == pc = "acting" \/ pc' = "acting"

\* C23: listen, act and listen_and_act leave every persona attribute as it
\* was, and act leaves current_context as it was, whatever the provider
\* answers.
C23_PersonaAndContextKept ==
    [][/\ configuration'.persona = configuration.persona
       /\ ActStep =>
            /\ HasKey(configuration', "current_context")
                 <=> HasKey(configuration, "current_context")
            /\ HasKey(configuration, "current_context") =>
                 configuration'.current_context = configuration.current_context]_vars

C23_Witness ==
    /\ pc = "returned"
    /\ Len(contents) >= 2
    /\ HasKey(configuration, "current_context")
    /\ configuration.current_context = "ctx"
    /\ HasKey(configuration, "current_goals")
    /\ configuration.current_goals = Last(contents).cognitive_state.goals
    /\ configuration.persona = [name |-> "Joe", age |-> "35"]


\* a record that lacks a key aux_act_once reads
LacksRequiredKey(r) ==
    \/ ~({"action", "cognitive_state"} \subseteq DOMAIN r)
    \/ ~({"goals", "attention", "emotions"} \subseteq DOMAIN r.cognitive_state)
    \/ ~({"type", "target"} \subseteq DOMAIN r.action)

\* the provider answered with records of which one lacks a required key
MalformedAnswer(resp) ==
    /\ resp.kind = "message"
    /\ \E k \in 1..Len(resp.content) : LacksRequiredKey(resp.content[k])

\* C24: a production step that fails because a produced record lacks a
\* required key is tried again, five attempts at most, the fifth failure in a
\* row leaving act(); a failure of any other kind leaves act() at once and
\* nothing else is tried again.
C24_RetryOnMissingKeyOnly ==
    [][ProviderCalled =>
         /\ tries < RETRIES
         /\ IF MalformedAnswer(last_resp')
            THEN IF tries < RETRIES - 1
                 THEN pc' = "acting" /\ tries' = tries + 1
                 ELSE pc' = "raised" /\ exc' = "KeyError"
            ELSE /\ tries' # tries + 1
                 /\ last_resp'.kind # "message" => pc' = "raised"]_vars


\* C26: in every produce cycle of act(), the first of an invocation too, the
\* top-k semantic matches for the current relevance query and the recent
\* episodic window are retrieved before the provider is called, and the prompt
\* sent in the call holds both.
C26_PromptHoldsMatchesAndWindow ==
    [][ProviderCalled =>
         /\ ContextKeys \subseteq DOMAIN configuration
         /\ relevance_target = RelevanceTarget(configuration, memory)
         /\ HasKey(VariablesOf(PromptSent), "current_memory_context")
         /\ VariablesOf(PromptSent).current_memory_context
              = retrieve_relevant(documents, relevance_target, TOP_K)
         /\ WindowOf(PromptSent)
              = retrieve_recent(memory, fixed_prefix_length, lookback_length, TRUE)]_vars

\* a DONE action is nowhere but at the end of a list of records
DoneOnlyLast(recs) ==
    \A k \in 1..(Len(recs) - 1) : recs[k].action.type # "DONE"

\* C28: within one invocation of act() nothing is produced, stored or
\* returned after a DONE action, also when one provider answer carries several
\* records: in the list act() returns and in what it stored, DONE is last.
\* Stated for an agent whose context was set, where no production step fails
\* on a missing current_context.
C28_NothingAfterDone ==
    (pc = "returned" /\ HasKey(configuration, "current_context")) =>
      /\ DoneOnlyLast(contents)
      /\ DoneOnlyLast(StoredSince)

\* the actions put in the action buffer since the running act() was entered:
\* those after the ones of the action events stored before
BufferedSince ==
    LET before == SelectSeq(SubSeq(memory, 1, mem_start), LAMBDA e : e.type = "action")
    IN SubSeq(actions_buffer, Len(before) + 1, Len(actions_buffer))

\* C29: when act() returns normally, the action events it stored, the actions
\* it put in the action buffer and the records of the list it returns are the
\* same in number and order, also after a production step was retried for a
\* missing key. Stated for an agent whose context was set.
C29_LogBufferAndListAgree ==
    (pc = "returned" /\ HasKey(configuration, "current_context")) =>
      /\ Len(StoredSince) = Len(contents)
      /\ Len(BufferedSince) = Len(contents)
      /\ \A k \in 1..Len(contents) :
           /\ StoredSince[k] = contents[k]
           /\ BufferedSince[k] = contents[k].action

-----------------------------------------------------------------------------
(* Properties of AnthropicAPIClient.send_message, stated for SpecLLM *)

\* this step made a backend call that failed
AttemptFailed ==
    /\ Len(o_attempts') = Len(o_attempts) + 1
    /\ Last(o_attempts').kind # "ok"

\* C30: with caching enabled, a backend attempt that fails leaves the
\* response cache as it was, and an entry once stored under a key is never
\* overwritten or removed by a later send_message.
C30_CacheEntriesKept ==
    [][(client = "openai" /\ cache_api_calls) =>
         /\ \A k \in DOMAIN api_cache :
              /\ k \in DOMAIN api_cache'
              /\ api_cache'[k] = api_cache[k]
         /\ AttemptFailed => (api_cache' = api_cache /\ cache_file' = cache_file)]_vars

C30_Witness ==
    /\ client = "openai"
    /\ cache_api_calls
    /\ DOMAIN api_cache = {CacheKey(Model, "q1")}
    /\ cache_file = api_cache
    /\ cache_key = CacheKey(Model, "q2")
    /\ Len(o_attempts) >= 2
    /\ Last(o_attempts).kind # "ok"

\* the records a text parses to as a whole, as json.loads gives them
ParsesWhole(text) == Loads(text)

\* the records the segments of a text parse to, a leading preamble skipped
ParsesBySegments(text) ==
    \A k \in 1..Len(ToParse(text.segs)) : ToParse(text.segs)[k] \in Objects

\* C25: the response text is coerced to JSON by a fixed chain: fences
\* stripped, a direct parse, else a parse of the blank-line separated segments
\* with a leading preamble skipped, else the text is sent to the backend for
\* repair and the repaired text parsed, else an empty result; a stage runs only
\* if all earlier ones failed, what the first successful stage parsed is what
\* is returned, and the failure of a stage raises nothing.
C25_FallbackChain ==
    (client = "anthropic" /\ a_call.kind \in {"parsed", "repaired"}) =>
      LET text == StripFences(a_call.text) IN
      /\ result.kind = "message"
      /\ IF ParsesWhole(text)
         THEN /\ a_call.kind = "parsed"
              /\ result.content = [shape |-> "list", items |-> text.segs]
         ELSE IF ParsesBySegments(text)
         THEN /\ a_call.kind = "parsed"
              /\ result.content = [shape |-> "list", items |-> ToParse(text.segs)]
         ELSE /\ a_call.kind = "repaired"
              /\ IF a_call.repair.kind = "text" /\ ParsesWhole(a_call.repair.text)
                 THEN result.content.shape \in {"list", "object"}
                      /\ result.content # [shape |-> "dict", value |-> DictFallback]
                 ELSE result.content = [shape |-> "dict", value |-> DictFallback]

====
